---- MODULE Spec2Model ----
(***************************************************************************)
(* Model of src/src/main.rs: the poll loop of the system-information OSC   *)
(* client.  The main thread installs a Ctrl-C handler, parses its flags,   *)
(* binds a UDP socket, registers the enabled providers and then loops:     *)
(* sleep, get_info, encode, send_to.  The Ctrl-C handler runs on a thread  *)
(* of its own and only stores false into the `running` flag.               *)
(*                                                                         *)
(* A text is a sequence of characters; a character is a one-token string.  *)
(* The numeric fields that the providers format are abstracted to one      *)
(* token per field; newlines, which get_info and the GPU provider insert,  *)
(* are kept as the character NL.                                           *)
(***************************************************************************)
EXTENDS Integers, Sequences, FiniteSets, TLC

VARIABLES
    pc,          \* position of the main thread in main()
    running,     \* the AtomicBool `running` (main.rs:136)
    handler,     \* TRUE once ctrlc::set_handler has installed the closure
    args,        \* the parsed Args (the four no_* flags)
    socket,      \* "none" | "open" | "closed": the UdpSocket of the inner scope
    buf,         \* the reusable encode buffer `buf`
    infos,       \* the provider registry `infos`, in push order
    i,           \* get_info: index of the next provider of the for loop
    info_str,    \* get_info: the accumulator `info_str`
    info,        \* main: the text returned by get_info in this tick
    exit_code,   \* exit status of the process (-1 while it is alive)
    \* history variables (not program state)
    outs,        \* the texts returned by the providers in the current tick
    cause,       \* why the process left main ("none" while alive)
    sent,        \* the set of datagrams handed to send_to successfully
    opens,       \* number of successful binds
    closes,      \* number of times the socket was dropped
    loop_entered,\* TRUE once the while condition has been evaluated
    last_tick,   \* outcome of the last tick body that ran to its end
    send_result, \* result of the last send_to call
    bad_send,    \* TRUE if send_to was ever called on a socket that is not open
    cancel_pc,   \* pc of the main thread when the flag was first cleared
    stop_seen,   \* TRUE once the while condition has read running = false
    sends_after_cancel,  \* send_to calls made after the flag was cleared
    sleeps_after_cancel, \* sleeps that returned after the flag was cleared
    sends_after_seen,    \* send_to calls made after the loop observed the flag
    \* the shared sampler, Rc<RefCell<System>> (main.rs:149)
    sys,         \* borrow state of the RefCell: live RefMut and Ref guards
    sub,         \* number of sampler operations done by the provider being queried
    \* history of the current iteration and of the builds so far
    tick_trace,  \* the steps the current iteration of the while loop has taken
    gpu_temp,    \* outcome of the GPU temperature read of this tick
    seen,        \* the (provider texts, combined text) pairs of all builds so far
    repeat       \* TRUE once a build saw provider texts an earlier build had seen

progVars == <<pc, running, handler, args, socket, buf, infos, i, info_str, info, exit_code>>
histVars == <<outs, cause, sent, opens, closes, loop_entered, last_tick, send_result,
              bad_send, cancel_pc, stop_seen, sends_after_cancel, sleeps_after_cancel,
              sends_after_seen>>
samplerVars == <<sys, sub>>
tickVars == <<tick_trace, gpu_temp, seen, repeat>>
vars == <<progVars, histVars, samplerVars, tickVars>>

(***************************************************************************)
(* Bounds of the model.                                                    *)
(***************************************************************************)
\* longest provider vector handed to get_info in the provider-generic harness
MaxProviders == 3

(***************************************************************************)
(* Texts.                                                                  *)
(***************************************************************************)
NL == "\n"
NUL == "\\0"

\* TimeInfo::get_info: one formatted timestamp, no newline
TimeText == <<"time">>

\* CpuInfo::get_info: "CPU: {usage}%, Processes: {count}"
CpuText == <<"cpu", "procs">>

\* RamInfo::get_info: "RAM: {used} ({percent}%)"
RamText == <<"ram", "rampct">>

\* a GPU line that shows a placeholder when the temperature cannot be read
GpuTextPlaceholder(tempOk) ==
    <<"util", "power">> \o (IF tempOk THEN <<"temp">> ELSE <<"n/a">>) \o <<NL, "mem", "mempct">>

\* GpuInfo::get_info: "GPU: {util}% ({power}W{temp})\n{used} ({percent}%)";
\* the temperature field is ", {t}°C" when the read succeeds and "" when it fails
GpuText(tempOk) ==
    <<"util", "power">> \o (IF tempOk THEN <<"temp">> ELSE <<>>) \o <<NL, "mem", "mempct">>

\* texts an arbitrary implementation of the trait Info may return
DynTexts == {<<>>, <<"a">>, <<"b", "c">>, <<"d", NL, "e">>}

(***************************************************************************)
(* Providers.  A provider is a record; `out` is used by the kind "Dyn"     *)
(* only (an arbitrary `dyn Info` that returns that text).                  *)
(***************************************************************************)
Provider(k) == [kind |-> k, out |-> <<>>]
DynProvider(t) == [kind |-> "Dyn", out |-> t]

ArgsSet == [no_time : BOOLEAN, no_cpu : BOOLEAN, no_ram : BOOLEAN, no_gpu : BOOLEAN]
NoArgs == [no_time |-> FALSE, no_cpu |-> FALSE, no_ram |-> FALSE, no_gpu |-> FALSE]

\* registry with the RAM provider pushed before the CPU provider
RegistryRamFirst(a) ==
    (IF a.no_time THEN <<>> ELSE <<Provider("Time")>>)
    \o (IF a.no_ram THEN <<>> ELSE <<Provider("Ram")>>)
    \o (IF a.no_cpu THEN <<>> ELSE <<Provider("Cpu")>>)
    \o (IF a.no_gpu THEN <<>> ELSE <<Provider("Gpu")>>)

\* main.rs:151-163: the registry is filled by four conditional pushes, in this order
Registry(a) ==
    (IF a.no_time THEN <<>> ELSE <<Provider("Time")>>)
    \o (IF a.no_cpu THEN <<>> ELSE <<Provider("Cpu")>>)
    \o (IF a.no_ram THEN <<>> ELSE <<Provider("Ram")>>)
    \o (IF a.no_gpu THEN <<>> ELSE <<Provider("Gpu")>>)

\* the texts a provider's get_info can return when it returns
Outputs(p) ==
    CASE p.kind = "Time" -> {TimeText}
      [] p.kind = "Cpu" -> {CpuText}
      [] p.kind = "Ram" -> {RamText}
      [] p.kind = "Gpu" -> {GpuText(TRUE), GpuText(FALSE)}
      [] OTHER -> {p.out}

\* GpuInfo::get_info unwraps memory_info, utilization_rates and power_usage
CanPanic(p) == p.kind = "Gpu"

(***************************************************************************)
(* String operations of get_info.                                          *)
(***************************************************************************)
\* String::push_str
PushStr(s, t) == s \o t

\* a pop that removes the last two characters
PopTwo(s) == IF Len(s) < 2 THEN <<>> ELSE SubSeq(s, 1, Len(s) - 2)

\* String::pop: removes the last character, if there is one
Pop(s) == IF s = <<>> THEN <<>> ELSE SubSeq(s, 1, Len(s) - 1)

\* is_empty that never reports an empty text
IsEmptyNever(s) == FALSE

\* String::is_empty
IsEmpty(s) == s = <<>>

(***************************************************************************)
(* OSC encoding of OscMessage { addr, args: [String(info), Bool(true)] }:  *)
(* address, type tags ",sT" and the string argument, each NUL-terminated   *)
(* and padded to a multiple of four bytes; Bool(true) has no data.         *)
(***************************************************************************)
Addr == <<"/", "c", "h", "a", "t", "b", "o", "x", "/", "i", "n", "p", "u", "t">>
\* a message whose second argument is Bool(false)
TypeTagsFalse == <<",", "s", "F">>

TypeTags == <<",", "s", "T">>

Pad(s) == s \o [k \in 1..(4 - (Len(s) % 4)) |-> NUL]

OscEncode(text) == Pad(Addr) \o Pad(TypeTags) \o Pad(text)

\* encode_into appends the encoding to the output vector
EncodeInto(text, b) == b \o OscEncode(text)

(***************************************************************************)
(* The shared sampler.  CpuInfo and RamInfo hold the same                  *)
(* Rc<RefCell<System>>; borrow_mut() panics while any guard is live and    *)
(* borrow() panics while a RefMut is live.  A guard created inside a       *)
(* statement lives to the end of that statement.                           *)
(***************************************************************************)
NoBorrow == [writers |-> 0, readers |-> 0]

\* CpuInfo::get_info keeping its first RefMut in a local across the second borrow_mut
SamplerOpsHeldGuard(k) ==
    CASE k = "Cpu" -> <<"mut", "mut", "rel", "ref", "ref">>
      [] k = "Ram" -> <<"mut", "rel", "ref", "ref", "ref">>
      [] OTHER -> <<>>

\* the RefCell operations of one call of get_info, in program order:
\* "mut" = borrow_mut(), "rel" = the RefMut is dropped at the end of the
\* statement, "ref" = borrow() inside the arguments of format!
SamplerOps(k) ==
    CASE k = "Cpu" -> <<"mut", "rel", "mut", "rel", "ref", "ref">>
      [] k = "Ram" -> <<"mut", "rel", "ref", "ref", "ref">>
      [] OTHER -> <<>>

\* RefCell's dynamic check
BorrowAllowed(op, cell) ==
    CASE op = "mut" -> cell.writers = 0 /\ cell.readers = 0
      [] op = "ref" -> cell.writers = 0
      [] OTHER -> TRUE

\* the borrow state after the operation
Borrowed(op, cell) ==
    CASE op = "mut" -> [cell EXCEPT !.writers = cell.writers + 1]
      [] op = "ref" -> [cell EXCEPT !.readers = cell.readers + 1]
      [] OTHER -> [cell EXCEPT !.writers = 0]

(***************************************************************************)
(* Leaving main.                                                           *)
(***************************************************************************)
InTick == {"sleep", "build", "encode", "send"}
InLoop == {"check"} \cup InTick

\* a socket that is leaked instead of dropped
DropLeaks(s) == s

\* UdpSocket is closed when it is dropped: at the end of the inner scope, on
\* the early return of `?`, and while a panic unwinds
Drop(s) == IF s = "open" THEN "closed" ELSE s

\* leaving main with status 0 whatever the reason
LeaveStatusZero(code, why) ==
    /\ pc' = "exited"
    /\ exit_code' = 0
    /\ cause' = why
    /\ socket' = Drop(socket)
    /\ closes' = IF Drop(socket) # socket THEN closes + 1 ELSE closes

\* the process ends with status `code` for the reason `why`
Leave(code, why) ==
    /\ pc' = "exited"
    /\ exit_code' = code
    /\ cause' = why
    /\ socket' = Drop(socket)
    /\ closes' = IF Drop(socket) # socket THEN closes + 1 ELSE closes

(***************************************************************************)
(* Initial state: the process has started, nothing of main has run.        *)
(***************************************************************************)
HistInit ==
    /\ outs = <<>>
    /\ cause = "none"
    /\ sent = {}
    /\ opens = 0
    /\ closes = 0
    /\ loop_entered = FALSE
    /\ last_tick = "none"
    /\ send_result = "none"
    /\ bad_send = FALSE
    /\ cancel_pc = "none"
    /\ stop_seen = FALSE
    /\ sends_after_cancel = 0
    /\ sleeps_after_cancel = 0
    /\ sends_after_seen = 0
    /\ gpu_temp = "none"
    /\ seen = {}
    /\ repeat = FALSE

Init ==
    /\ pc = "set_handler"
    /\ running = TRUE
    /\ handler = FALSE
    /\ args = NoArgs
    /\ socket = "none"
    /\ buf = <<>>
    /\ infos = <<>>
    /\ i = 1
    /\ info_str = <<>>
    /\ info = <<>>
    /\ exit_code = -1
    /\ sys = NoBorrow
    /\ sub = 0
    /\ tick_trace = <<>>
    /\ HistInit

(***************************************************************************)
(* The main thread, main.rs:135-188.                                       *)
(***************************************************************************)
\* main.rs:136-142: ctrlc::set_handler(..).expect(..); a failure to install
\* the handler panics before anything else is created
SetHandler ==
    /\ pc = "set_handler"
    /\ \/ /\ handler' = TRUE
          /\ pc' = "parse"
          /\ UNCHANGED <<exit_code, socket, cause, closes>>
       \/ /\ Leave(101, "handler")
          /\ UNCHANGED handler
    /\ UNCHANGED <<running, args, buf, infos, i, info_str, info>>
    /\ UNCHANGED <<outs, sent, opens, loop_entered, last_tick, send_result, bad_send,
                   cancel_pc, stop_seen, sends_after_cancel, sleeps_after_cancel,
                   sends_after_seen>>
    /\ UNCHANGED <<samplerVars, tickVars>>

\* main.rs:144: Args::parse(); a command line clap rejects ends the process
\* with status 2
ParseArgs ==
    /\ pc = "parse"
    /\ \/ /\ \E a \in ArgsSet : args' = a
          /\ pc' = "bind"
          /\ UNCHANGED <<exit_code, socket, cause, closes>>
       \/ /\ Leave(2, "usage")
          /\ UNCHANGED args
    /\ UNCHANGED <<running, handler, buf, infos, i, info_str, info>>
    /\ UNCHANGED <<outs, sent, opens, loop_entered, last_tick, send_result, bad_send,
                   cancel_pc, stop_seen, sends_after_cancel, sleeps_after_cancel,
                   sends_after_seen>>
    /\ UNCHANGED <<samplerVars, tickVars>>

\* main.rs:147-148: UdpSocket::bind("127.0.0.1:9001")?; let mut buf = Vec::new();
\* a bind error is returned from main
Bind ==
    /\ pc = "bind"
    /\ \/ /\ socket' = "open"
          /\ opens' = opens + 1
          /\ buf' = <<>>
          /\ pc' = "registry"
          /\ UNCHANGED <<exit_code, cause, closes>>
       \/ /\ Leave(1, "bind")
          /\ UNCHANGED <<opens, buf>>
    /\ UNCHANGED <<running, handler, args, infos, i, info_str, info>>
    /\ UNCHANGED <<outs, sent, loop_entered, last_tick, send_result, bad_send,
                   cancel_pc, stop_seen, sends_after_cancel, sleeps_after_cancel,
                   sends_after_seen>>
    /\ UNCHANGED <<samplerVars, tickVars>>

\* main.rs:149-163: the sampler and the registry; GpuInfo::new() (main.rs:110-116)
\* unwraps Nvml::init() and device_by_index(0) and panics when either fails
BuildRegistry ==
    /\ pc = "registry"
    /\ \/ /\ infos' = Registry(args)
          /\ pc' = "check"
          /\ UNCHANGED <<exit_code, socket, cause, closes>>
       \/ /\ ~args.no_gpu
          /\ Leave(101, "gpu_init")
          /\ UNCHANGED infos
    /\ UNCHANGED <<running, handler, args, buf, i, info_str, info>>
    /\ UNCHANGED <<outs, sent, opens, loop_entered, last_tick, send_result, bad_send,
                   cancel_pc, stop_seen, sends_after_cancel, sleeps_after_cancel,
                   sends_after_seen>>
    /\ UNCHANGED <<samplerVars, tickVars>>

\* an iteration that enters get_info without sleeping first
LoopCheckSkipsSleep ==
    /\ pc = "check"
    /\ pc' = IF running THEN "build" ELSE "exit_scope"
    /\ i' = IF running THEN 1 ELSE i
    /\ info_str' = IF running THEN <<>> ELSE info_str
    /\ outs' = IF running THEN <<>> ELSE outs
    /\ loop_entered' = TRUE
    /\ stop_seen' = (stop_seen \/ ~running)
    /\ UNCHANGED <<running, handler, args, socket, buf, infos, info, exit_code>>
    /\ UNCHANGED <<cause, sent, opens, closes, last_tick, send_result, bad_send,
                   cancel_pc, sends_after_cancel, sleeps_after_cancel, sends_after_seen>>
    /\ tick_trace' = <<"check">>
    /\ UNCHANGED <<samplerVars, gpu_temp, seen, repeat>>

\* a loop condition that does not read the flag
LoopCheckIgnoresFlag ==
    /\ pc = "check"
    /\ pc' = "sleep"
    /\ loop_entered' = TRUE
    /\ UNCHANGED stop_seen
    /\ UNCHANGED <<running, handler, args, socket, buf, infos, i, info_str, info, exit_code>>
    /\ UNCHANGED <<outs, cause, sent, opens, closes, last_tick, send_result, bad_send,
                   cancel_pc, sends_after_cancel, sleeps_after_cancel, sends_after_seen>>
    /\ tick_trace' = <<"check">>
    /\ UNCHANGED <<samplerVars, gpu_temp, seen, repeat>>

\* main.rs:165: while running.load(Ordering::SeqCst)
LoopCheck ==
    /\ pc = "check"
    /\ pc' = IF running THEN "sleep" ELSE "exit_scope"
    /\ loop_entered' = TRUE
    /\ stop_seen' = (stop_seen \/ ~running)
    /\ UNCHANGED <<running, handler, args, socket, buf, infos, i, info_str, info, exit_code>>
    /\ UNCHANGED <<outs, cause, sent, opens, closes, last_tick, send_result, bad_send,
                   cancel_pc, sends_after_cancel, sleeps_after_cancel, sends_after_seen>>
    /\ tick_trace' = <<"check">>
    /\ UNCHANGED <<samplerVars, gpu_temp, seen, repeat>>

\* get_info that reuses its accumulator instead of starting from String::new()
SleepKeepsText ==
    /\ pc = "sleep"
    /\ pc' = "build"
    /\ i' = 1
    /\ UNCHANGED info_str
    /\ outs' = <<>>
    /\ sleeps_after_cancel' = IF running THEN sleeps_after_cancel ELSE sleeps_after_cancel + 1
    /\ UNCHANGED <<running, handler, args, socket, buf, infos, info, exit_code>>
    /\ UNCHANGED <<cause, sent, opens, closes, loop_entered, last_tick, send_result,
                   bad_send, cancel_pc, stop_seen, sends_after_cancel, sends_after_seen>>
    /\ tick_trace' = Append(tick_trace, "sleep")
    /\ gpu_temp' = "none"
    /\ UNCHANGED <<samplerVars, seen, repeat>>

\* main.rs:166-167, 190-191: thread::sleep(interval) returns and get_info is
\* entered with an empty info_str
Sleep ==
    /\ pc = "sleep"
    /\ pc' = "build"
    /\ i' = 1
    /\ info_str' = <<>>
    /\ outs' = <<>>
    /\ sleeps_after_cancel' = IF running THEN sleeps_after_cancel ELSE sleeps_after_cancel + 1
    /\ UNCHANGED <<running, handler, args, socket, buf, infos, info, exit_code>>
    /\ UNCHANGED <<cause, sent, opens, closes, loop_entered, last_tick, send_result,
                   bad_send, cancel_pc, stop_seen, sends_after_cancel, sends_after_seen>>
    /\ tick_trace' = Append(tick_trace, "sleep")
    /\ gpu_temp' = "none"
    /\ UNCHANGED <<samplerVars, seen, repeat>>

\* main.rs:74-75, 78-79, 96, 99-100: one RefCell operation of the provider
\* being queried; a borrow the RefCell refuses panics
SamplerStep ==
    /\ pc = "build"
    /\ i <= Len(infos)
    /\ sub < Len(SamplerOps(infos[i].kind))
    /\ LET op == SamplerOps(infos[i].kind)[sub + 1]
       IN IF BorrowAllowed(op, sys)
             THEN /\ sys' = Borrowed(op, sys)
                  /\ sub' = sub + 1
                  /\ UNCHANGED <<pc, exit_code, socket, cause, closes>>
             ELSE /\ Leave(101, "borrow")
                  /\ UNCHANGED <<sys, sub>>
    /\ UNCHANGED <<running, handler, args, buf, infos, i, info_str, info>>
    /\ UNCHANGED <<outs, sent, opens, loop_entered, last_tick, send_result, bad_send,
                   cancel_pc, stop_seen, sends_after_cancel, sleeps_after_cancel,
                   sends_after_seen>>
    /\ UNCHANGED tickVars

\* main.rs:193-196: one iteration of the for loop of get_info: the provider
\* returns its text (the Ref guards of its format! are dropped) and the text
\* and a newline are pushed; a GPU query that fails panics (main.rs:120-124)
GetInfoStep ==
    /\ pc = "build"
    /\ i <= Len(infos)
    /\ sub = Len(SamplerOps(infos[i].kind))
    /\ \/ /\ \E t \in Outputs(infos[i]) :
                /\ info_str' = PushStr(PushStr(info_str, t), <<NL>>)
                /\ outs' = Append(outs, t)
                /\ gpu_temp' = IF infos[i].kind # "Gpu" THEN gpu_temp
                               ELSE IF \E k \in 1..Len(t) : t[k] = "temp" THEN "ok"
                               ELSE "err"
          /\ i' = i + 1
          /\ sub' = 0
          /\ sys' = [sys EXCEPT !.readers = 0]
          /\ UNCHANGED <<pc, exit_code, socket, cause, closes>>
       \/ /\ CanPanic(infos[i])
          /\ Leave(101, "gpu_query")
          /\ UNCHANGED <<i, info_str, outs, gpu_temp, sub, sys>>
    /\ UNCHANGED <<running, handler, args, buf, infos, info>>
    /\ UNCHANGED <<sent, opens, loop_entered, last_tick, send_result, bad_send,
                   cancel_pc, stop_seen, sends_after_cancel, sleeps_after_cancel,
                   sends_after_seen>>
    /\ UNCHANGED <<tick_trace, seen, repeat>>

\* an empty text that goes straight to the next sleep, past the loop condition
GetInfoReturnSkipsCheck ==
    /\ pc = "build"
    /\ i > Len(infos)
    /\ info' = Pop(info_str)
    /\ IF IsEmpty(Pop(info_str))
          THEN /\ pc' = "sleep"
               /\ last_tick' = "skipped"
          ELSE /\ pc' = "encode"
               /\ UNCHANGED last_tick
    /\ UNCHANGED <<running, handler, args, socket, buf, infos, i, info_str, exit_code>>
    /\ UNCHANGED <<outs, cause, sent, opens, closes, loop_entered, send_result, bad_send,
                   cancel_pc, stop_seen, sends_after_cancel, sleeps_after_cancel,
                   sends_after_seen>>
    /\ tick_trace' = Append(tick_trace, "build")
    /\ seen' = seen \cup {[outs |-> outs, info |-> Pop(info_str)]}
    /\ repeat' = (repeat \/ \E r \in seen : r.outs = outs)
    /\ UNCHANGED <<samplerVars, gpu_temp>>

\* main.rs:198-199, 167-170: the last character is popped, the text is
\* returned, and an empty text sends the loop back to its condition
GetInfoReturn ==
    /\ pc = "build"
    /\ i > Len(infos)
    /\ info' = Pop(info_str)
    /\ IF IsEmpty(Pop(info_str))
          THEN /\ pc' = "check"
               /\ last_tick' = "skipped"
          ELSE /\ pc' = "encode"
               /\ UNCHANGED last_tick
    /\ UNCHANGED <<running, handler, args, socket, buf, infos, i, info_str, exit_code>>
    /\ UNCHANGED <<outs, cause, sent, opens, closes, loop_entered, send_result, bad_send,
                   cancel_pc, stop_seen, sends_after_cancel, sleeps_after_cancel,
                   sends_after_seen>>
    /\ tick_trace' = Append(tick_trace, "build")
    /\ seen' = seen \cup {[outs |-> outs, info |-> Pop(info_str)]}
    /\ repeat' = (repeat \/ \E r \in seen : r.outs = outs)
    /\ UNCHANGED <<samplerVars, gpu_temp>>

\* main.rs:171-176: the message is built and encoded into buf
Encode ==
    /\ pc = "encode"
    /\ buf' = EncodeInto(info, buf)
    /\ pc' = "send"
    /\ UNCHANGED <<running, handler, args, socket, infos, i, info_str, info, exit_code>>
    /\ UNCHANGED histVars
    /\ UNCHANGED <<samplerVars, tickVars>>

\* a send that leaves the encoded bytes in buf (no buf.set_len(0))
SendKeepsBuf ==
    /\ pc = "send"
    /\ bad_send' = (bad_send \/ socket # "open")
    /\ sends_after_cancel' = IF running THEN sends_after_cancel ELSE sends_after_cancel + 1
    /\ sends_after_seen' = IF stop_seen THEN sends_after_seen + 1 ELSE sends_after_seen
    /\ \/ /\ sent' = sent \cup {[text |-> info, bytes |-> buf]}
          /\ send_result' = "ok"
          /\ last_tick' = "sent"
          /\ UNCHANGED buf
          /\ pc' = "check"
          /\ UNCHANGED <<exit_code, socket, cause, closes>>
       \/ /\ send_result' = "err"
          /\ Leave(1, "send")
          /\ UNCHANGED <<sent, last_tick, buf>>
    /\ UNCHANGED <<running, handler, args, infos, i, info_str, info>>
    /\ UNCHANGED <<outs, opens, loop_entered, cancel_pc, stop_seen, sleeps_after_cancel>>
    /\ tick_trace' = Append(tick_trace, "send")
    /\ UNCHANGED <<samplerVars, gpu_temp, seen, repeat>>

\* a send_to error that is retried in the same tick instead of returned
SendRetries ==
    /\ pc = "send"
    /\ bad_send' = (bad_send \/ socket # "open")
    /\ sends_after_cancel' = IF running THEN sends_after_cancel ELSE sends_after_cancel + 1
    /\ sends_after_seen' = IF stop_seen THEN sends_after_seen + 1 ELSE sends_after_seen
    /\ \/ /\ sent' = sent \cup {[text |-> info, bytes |-> buf]}
          /\ send_result' = "ok"
          /\ last_tick' = "sent"
          /\ buf' = <<>>
          /\ pc' = "check"
       \/ /\ send_result' = "err"
          /\ UNCHANGED <<pc, sent, last_tick, buf>>
    /\ UNCHANGED <<exit_code, socket, cause, closes>>
    /\ UNCHANGED <<running, handler, args, infos, i, info_str, info>>
    /\ UNCHANGED <<outs, opens, loop_entered, cancel_pc, stop_seen, sleeps_after_cancel>>
    /\ tick_trace' = Append(tick_trace, "send")
    /\ UNCHANGED <<samplerVars, gpu_temp, seen, repeat>>

\* main.rs:178-183: socket.send_to(&buf, ..)?; println!; buf.set_len(0).
\* An error of send_to is returned from main by the `?`
Send ==
    /\ pc = "send"
    /\ bad_send' = (bad_send \/ socket # "open")
    /\ sends_after_cancel' = IF running THEN sends_after_cancel ELSE sends_after_cancel + 1
    /\ sends_after_seen' = IF stop_seen THEN sends_after_seen + 1 ELSE sends_after_seen
    /\ \/ /\ sent' = sent \cup {[text |-> info, bytes |-> buf]}
          /\ send_result' = "ok"
          /\ last_tick' = "sent"
          /\ buf' = <<>>
          /\ pc' = "check"
          /\ UNCHANGED <<exit_code, socket, cause, closes>>
       \/ /\ send_result' = "err"
          /\ Leave(1, "send")
          /\ UNCHANGED <<sent, last_tick, buf>>
    /\ UNCHANGED <<running, handler, args, infos, i, info_str, info>>
    /\ UNCHANGED <<outs, opens, loop_entered, cancel_pc, stop_seen, sleeps_after_cancel>>
    /\ tick_trace' = Append(tick_trace, "send")
    /\ UNCHANGED <<samplerVars, gpu_temp, seen, repeat>>

\* main.rs:185-187: the inner scope ends (the socket is closed), "bye" is
\* printed and main returns Ok(())
ExitScope ==
    /\ pc = "exit_scope"
    /\ Leave(0, "cancelled")
    /\ UNCHANGED <<running, handler, args, buf, infos, i, info_str, info>>
    /\ UNCHANGED <<outs, sent, opens, loop_entered, last_tick, send_result, bad_send,
                   cancel_pc, stop_seen, sends_after_cancel, sleeps_after_cancel,
                   sends_after_seen>>
    /\ UNCHANGED <<samplerVars, tickVars>>

(***************************************************************************)
(* The Ctrl-C handler, main.rs:139-141: r.store(false, SeqCst).  It runs   *)
(* on the handler thread whenever an interrupt arrives while the process   *)
(* is alive and the handler is installed.                                  *)
(***************************************************************************)
\* a handler that flips the flag instead of storing false
InterruptToggles ==
    /\ handler
    /\ pc # "exited"
    /\ running' = ~running
    /\ cancel_pc' = IF running THEN pc ELSE cancel_pc
    /\ UNCHANGED <<pc, handler, args, socket, buf, infos, i, info_str, info, exit_code>>
    /\ UNCHANGED <<outs, cause, sent, opens, closes, loop_entered, last_tick, send_result,
                   bad_send, stop_seen, sends_after_cancel, sleeps_after_cancel,
                   sends_after_seen>>
    /\ UNCHANGED <<samplerVars, tickVars>>

Interrupt ==
    /\ handler
    /\ pc # "exited"
    /\ running' = FALSE
    /\ cancel_pc' = IF running THEN pc ELSE cancel_pc
    /\ UNCHANGED <<pc, handler, args, socket, buf, infos, i, info_str, info, exit_code>>
    /\ UNCHANGED <<outs, cause, sent, opens, closes, loop_entered, last_tick, send_result,
                   bad_send, stop_seen, sends_after_cancel, sleeps_after_cancel,
                   sends_after_seen>>
    /\ UNCHANGED <<samplerVars, tickVars>>

MainStep ==
    \/ SetHandler
    \/ ParseArgs
    \/ Bind
    \/ BuildRegistry
    \/ LoopCheck
    \/ Sleep
    \/ SamplerStep
    \/ GetInfoStep
    \/ GetInfoReturn
    \/ Encode
    \/ Send
    \/ ExitScope

Next == MainStep \/ Interrupt

Spec == Init /\ [][Next]_vars

\* the main thread is scheduled, and sleep, the provider queries and send_to return
FairSpec == Spec /\ WF_vars(MainStep)

(***************************************************************************)
(* One tick body over an arbitrary provider vector: get_info takes any     *)
(* Vec<Box<dyn Info>> (main.rs:190), so its text handling is also checked  *)
(* with providers that return arbitrary texts, the empty text included.    *)
(* The state is the one main is in when get_info is entered.               *)
(***************************************************************************)
RECURSIVE SeqsUpTo(_, _)
SeqsUpTo(S, n) ==
    IF n = 0 THEN {<<>>}
    ELSE LET shorter == SeqsUpTo(S, n - 1)
         IN shorter \cup {Append(q, x) : q \in shorter, x \in S}

InitGetInfo ==
    /\ pc = "build"
    /\ running = TRUE
    /\ handler = TRUE
    /\ args = NoArgs
    /\ socket = "open"
    /\ buf = <<>>
    /\ infos \in SeqsUpTo({DynProvider(t) : t \in DynTexts}, MaxProviders)
    /\ i = 1
    /\ info_str = <<>>
    /\ info = <<>>
    /\ exit_code = -1
    /\ outs = <<>>
    /\ cause = "none"
    /\ sent = {}
    /\ opens = 1
    /\ closes = 0
    /\ loop_entered = TRUE
    /\ last_tick = "none"
    /\ send_result = "none"
    /\ bad_send = FALSE
    /\ cancel_pc = "none"
    /\ stop_seen = FALSE
    /\ sends_after_cancel = 0
    /\ sleeps_after_cancel = 0
    /\ sends_after_seen = 0
    /\ sys = NoBorrow
    /\ sub = 0
    /\ tick_trace = <<"check", "sleep">>
    /\ gpu_temp = "none"
    /\ seen = {}
    /\ repeat = FALSE

NextGetInfo ==
    \/ GetInfoStep
    \/ GetInfoReturn
    \/ Encode
    \/ Send

SpecGetInfo == InitGetInfo /\ [][NextGetInfo]_vars

(***************************************************************************)
(* Operators used to state the properties.                                 *)
(***************************************************************************)
ZeroSources(a) == a.no_time /\ a.no_cpu /\ a.no_ram /\ a.no_gpu

AllEmpty(ts) == \A k \in 1..Len(ts) : ts[k] = <<>>

HasNL(s) == \E k \in 1..Len(s) : s[k] = NL
FirstNL(s) == CHOOSE k \in 1..Len(s) : s[k] = NL /\ \A j \in 1..(k - 1) : s[j] # NL

\* the newline-separated segments of a text
RECURSIVE Split(_)
Split(s) ==
    IF ~HasNL(s) THEN <<s>>
    ELSE <<SubSeq(s, 1, FirstNL(s) - 1)>> \o Split(SubSeq(s, FirstNL(s) + 1, Len(s)))

\* the segments of several texts, one text after the other
RECURSIVE SplitAll(_)
SplitAll(ts) == IF ts = <<>> THEN <<>> ELSE Split(Head(ts)) \o SplitAll(Tail(ts))

\* no leading, trailing or doubled newline
NoStrayNewline(s) ==
    /\ s # <<>> => (s[1] # NL /\ s[Len(s)] # NL)
    /\ \A k \in 1..(Len(s) - 1) : ~(s[k] = NL /\ s[k + 1] = NL)

\* the enabled source kinds in the order Time, Cpu, Ram, Gpu
EnabledKinds(a) ==
    SelectSeq(<<"Time", "Cpu", "Ram", "Gpu">>,
              LAMBDA k : \/ (k = "Time" /\ ~a.no_time)
                         \/ (k = "Cpu" /\ ~a.no_cpu)
                         \/ (k = "Ram" /\ ~a.no_ram)
                         \/ (k = "Gpu" /\ ~a.no_gpu))

\* get_info has returned the text of the current tick and it was not empty
Built == pc \in {"encode", "send"}

(***************************************************************************)
(* C1.  Once the flag is cleared, at most one more send_to call happens,   *)
(* the one of the tick that was in flight when the flag was cleared; if    *)
(* the flag was cleared outside a tick body, or once the loop condition    *)
(* has read the cleared flag, no send_to call happens any more.            *)
(***************************************************************************)
C1_NoDeliveryAfterCancel ==
    /\ sends_after_cancel <= 1
    /\ cancel_pc \notin InTick => sends_after_cancel = 0
    /\ sends_after_seen = 0

\* the flag was cleared during a sleep, the tick still sent, and the loop stopped
C1_Witness ==
    /\ cancel_pc = "sleep"
    /\ sends_after_cancel = 1
    /\ send_result = "ok"
    /\ stop_seen
    /\ pc = "exited"

(***************************************************************************)
(* C2.  A send_to error leaves the loop running: the process does not      *)
(* leave main because of it.  (Stated as claimed; the code returns the     *)
(* error from main.)                                                       *)
(***************************************************************************)
C2_SendFailureKeepsLoopRunning ==
    send_result = "err" => (pc \in InLoop \/ cause = "cancelled" \/ pc = "exit_scope")

(***************************************************************************)
(* C3.  A failure inside a provider's get_info never ends the process.     *)
(* (Stated as claimed; the GPU provider unwraps its queries.)              *)
(***************************************************************************)
C3_SourceFailureContained == ~(pc = "exited" /\ cause = "gpu_query")

C5_ZeroSourcesNeverDeliver ==
    ZeroSources(args) =>
        /\ info = <<>>
        /\ sent = {}
        /\ send_result = "none"
        /\ pc \notin {"encode", "send"}
        /\ last_tick \in {"none", "skipped"}
        /\ (loop_entered /\ pc = "exited") => (cause = "cancelled" /\ ~running)

\* a tick was skipped and the loop has gone on to the next one
C5_Witness ==
    /\ ZeroSources(args)
    /\ last_tick = "skipped"
    /\ pc = "build"
    /\ running = TRUE

C8_CancelLeadsToStop ==
    /\ (~running) ~> (pc = "exited")
    /\ [](sleeps_after_cancel <= 1)

\* the flag was cleared before the sleep of a tick returned; the tick ran to
\* its end and the process left main through the end of the scope
C8_Witness ==
    /\ ~running
    /\ sleeps_after_cancel = 1
    /\ pc = "exited"
    /\ cause = "cancelled"
    /\ exit_code = 0

(***************************************************************************)
(* C9.  A bind error or a failure to initialise the requested GPU ends     *)
(* the process with a non-zero status before the loop condition is ever    *)
(* evaluated: no tick runs and nothing is sent.                            *)
(***************************************************************************)
C9_StartupFailureSkipsLoop ==
    cause \in {"bind", "gpu_init"} =>
        /\ pc = "exited"
        /\ exit_code # 0
        /\ ~loop_entered
        /\ last_tick = "none"
        /\ send_result = "none"
        /\ sent = {}

\* the GPU failed to initialise after the socket had been bound
C9_Witness ==
    /\ cause = "gpu_init"
    /\ opens = 1
    /\ pc = "exited"

(***************************************************************************)
(* C10.  The socket is bound at most once and before the loop, it is open  *)
(* throughout the loop, send_to is only called on the open socket, and it  *)
(* is closed exactly once on every way out of main that follows the bind.  *)
(***************************************************************************)
C10_SocketScoped ==
    /\ opens <= 1
    /\ closes <= opens
    /\ socket = "open" <=> (opens = 1 /\ closes = 0)
    /\ pc \in InLoop \cup {"exit_scope"} => socket = "open"
    /\ ~bad_send
    /\ pc = "exited" => (socket # "open" /\ closes = opens)

\* a GPU query panicked inside a tick and the socket was closed by the unwind
C10_Witness ==
    /\ pc = "exited"
    /\ cause = "gpu_query"
    /\ socket = "closed"
    /\ closes = 1

\* the texts joined with single newlines
RECURSIVE Join(_)
Join(ts) ==
    IF ts = <<>> THEN <<>>
    ELSE IF Len(ts) = 1 THEN ts[1]
    ELSE ts[1] \o <<NL>> \o Join(Tail(ts))

\* number of occurrences of a step in a trace
Count(tr, x) == Cardinality({k \in 1..Len(tr) : tr[k] = x})

(***************************************************************************)
(* C11.  An iteration of the loop calls send_to at most once, after the    *)
(* build of that same iteration, and what it hands to send_to is the       *)
(* encoding of the text built in that iteration from that iteration's      *)
(* provider texts; every datagram sent carries the text it was built for.  *)
(***************************************************************************)
C11_OneFreshSendPerTick ==
    /\ Count(tick_trace, "send") <= 1
    /\ Count(tick_trace, "build") <= 1
    /\ Count(tick_trace, "send") = 1 =>
          /\ tick_trace = <<"check", "sleep", "build", "send">>
          /\ info = Join(outs)
          /\ pc \in {"check", "exited"}
    /\ pc = "send" =>
          /\ tick_trace = <<"check", "sleep", "build">>
          /\ info = Join(outs)
          /\ buf = OscEncode(info)
    /\ \A d \in sent : d.bytes = OscEncode(d.text) /\ \E r \in seen : r.info = d.text

\* a tick whose send failed: the process has left main after that one call
C11_Witness ==
    /\ send_result = "err"
    /\ Count(tick_trace, "send") = 1
    /\ pc = "exited"
    /\ sent # {}

(***************************************************************************)
(* C12.  Two builds that got the same provider texts returned the same     *)
(* combined text, whichever iterations they ran in, and the registry is    *)
(* not changed once the loop has been entered.                             *)
(***************************************************************************)
C12_SameOutputsSameText ==
    /\ [](\A a \in seen : \A b \in seen : a.outs = b.outs => a.info = b.info)
    /\ [][(pc \in InLoop) => (infos' = infos)]_vars

\* a later iteration got the provider texts of an earlier one and was sent
C12_Witness ==
    /\ repeat
    /\ Len(infos) >= 2
    /\ last_tick = "sent"
    /\ Cardinality(seen) = 1

(***************************************************************************)
(* A conformant OSC decoder: an OSC-string runs to its first NUL and is    *)
(* followed by NULs up to the next multiple of four bytes; the arguments   *)
(* follow in the order of the type tags, "s" with an OSC-string and "T"    *)
(* and "F" with no data.                                                   *)
(***************************************************************************)
HasNUL(b, pos) == \E k \in pos..Len(b) : b[k] = NUL
StrEnd(b, pos) == CHOOSE k \in pos..Len(b) : b[k] = NUL /\ \A j \in pos..(k - 1) : b[j] # NUL
\* the position after the padded OSC-string that starts at pos
StrNext(b, pos) == pos + 4 * (((StrEnd(b, pos) - pos) \div 4) + 1)
StrValue(b, pos) == SubSeq(b, pos, StrEnd(b, pos) - 1)
StrOk(b, pos) ==
    /\ HasNUL(b, pos)
    /\ StrNext(b, pos) <= Len(b) + 1
    /\ \A k \in StrEnd(b, pos)..(StrNext(b, pos) - 1) : b[k] = NUL

Failed == [ok |-> FALSE, args |-> <<>>]

RECURSIVE DecodeArgs(_, _, _)
DecodeArgs(b, pos, tags) ==
    IF tags = <<>> THEN [ok |-> pos = Len(b) + 1, args |-> <<>>]
    ELSE IF Head(tags) \in {"T", "F"}
       THEN LET rest == DecodeArgs(b, pos, Tail(tags))
            IN [ok |-> rest.ok, args |-> <<[type |-> Head(tags), val |-> <<>>]>> \o rest.args]
    ELSE IF Head(tags) = "s" /\ StrOk(b, pos)
       THEN LET rest == DecodeArgs(b, StrNext(b, pos), Tail(tags))
            IN [ok |-> rest.ok, args |-> <<[type |-> "s", val |-> StrValue(b, pos)]>> \o rest.args]
    ELSE Failed

OscDecode(b) ==
    IF ~StrOk(b, 1) THEN [ok |-> FALSE, addr |-> <<>>, args |-> <<>>]
    ELSE LET p2 == StrNext(b, 1)
         IN IF ~StrOk(b, p2) \/ StrValue(b, p2) = <<>> \/ Head(StrValue(b, p2)) # ","
               THEN [ok |-> FALSE, addr |-> StrValue(b, 1), args |-> <<>>]
               ELSE LET r == DecodeArgs(b, StrNext(b, p2), Tail(StrValue(b, p2)))
                    IN [ok |-> r.ok, addr |-> StrValue(b, 1), args |-> r.args]

\* what the receiver must get for a snapshot text
Received(text) ==
    [ok |-> TRUE,
     addr |-> <<"/", "c", "h", "a", "t", "b", "o", "x", "/", "i", "n", "p", "u", "t">>,
     args |-> <<[type |-> "s", val |-> text], [type |-> "T", val |-> <<>>]>>]

(***************************************************************************)
(* C13.  Every datagram handed to send_to decodes to the address           *)
(* /chatbox/input, the snapshot text of its tick as the string argument    *)
(* and the boolean true as the second argument.                            *)
(***************************************************************************)
C13_RoundTrip ==
    /\ pc = "send" => OscDecode(buf) = Received(info)
    /\ \A d \in sent : OscDecode(d.bytes) = Received(d.text)

\* datagrams were sent whose text fills whole four-byte words and whose text does not
C13_Witness ==
    /\ \E d \in sent : Len(d.text) % 4 = 0
    /\ \E d \in sent : Len(d.text) % 4 = 3

\* the steps of one iteration, in the order the claim gives them
TickOrder == <<"check", "sleep", "build", "send">>

IsPrefix(a, b) == Len(a) <= Len(b) /\ a = SubSeq(b, 1, Len(a))

(***************************************************************************)
(* C14.  Every iteration takes its steps in the order condition, sleep,    *)
(* build, send: get_info runs only after the sleep of its iteration has    *)
(* returned, send_to is reached only after a build that returned a         *)
(* non-empty text, and an empty text takes the loop back to its condition  *)
(* with no send.                                                           *)
(***************************************************************************)
C14_TickOrder ==
    /\ IsPrefix(tick_trace, TickOrder)
    /\ (tick_trace = <<>>) <=> ~loop_entered
    /\ pc \in {"sleep", "exit_scope"} => tick_trace = <<"check">>
    /\ pc = "build" => tick_trace = <<"check", "sleep">>
    /\ pc \in {"encode", "send"} => (tick_trace = <<"check", "sleep", "build">> /\ info # <<>>)
    /\ (tick_trace = <<"check", "sleep", "build">> /\ info = <<>>) =>
          (pc = "check" /\ last_tick = "skipped")
    /\ Count(tick_trace, "send") = 1 => info # <<>>

\* an iteration that slept, built a non-empty text and sent it is back at the condition
C14_Witness ==
    /\ tick_trace = TickOrder
    /\ pc = "check"
    /\ send_result = "ok"
    /\ info # <<>>

(***************************************************************************)
(* C15.  For every provider vector, the text get_info returns is the       *)
(* providers' texts joined with single newlines: the one character it      *)
(* pops is the newline pushed after the last provider's text, and with no  *)
(* provider nothing is popped.                                             *)
(***************************************************************************)
C15_PopTrimsOnlySeparator ==
    pc # "build" =>
        /\ Len(outs) = Len(infos)
        /\ info = Join(outs)
        /\ outs # <<>> => info_str = info \o <<NL>>
        /\ outs = <<>> => (info_str = <<>> /\ info = <<>>)

\* a single provider whose text does not end in a newline: the text is returned whole
C15_Witness ==
    /\ pc = "send"
    /\ outs = <<(<<"b", "c">>)>>
    /\ info = <<"b", "c">>

(***************************************************************************)
(* C16.  When the temperature read of the GPU provider fails in a tick,    *)
(* the GPU text of that tick is the utilization and power fields followed  *)
(* on the next line by the memory fields, with nothing in place of the     *)
(* temperature; the provider returns, the text is built, encoded and       *)
(* handed to send_to like that of any other tick.                          *)
(***************************************************************************)
C16_TemperatureOmitted ==
    gpu_temp = "err" =>
        /\ cause \notin {"gpu_query", "borrow"}
        /\ outs # <<>>
        /\ outs[Len(outs)] = <<"util", "power", NL, "mem", "mempct">>
        /\ Count(tick_trace, "build") = 1 =>
              /\ info # <<>>
              /\ Len(Split(info)) >= 2
              /\ Split(info)[Len(Split(info)) - 1] = <<"util", "power">>
              /\ Split(info)[Len(Split(info))] = <<"mem", "mempct">>
              /\ pc \in {"encode", "send", "check", "exited"}
              /\ pc = "check" => (last_tick = "sent" /\ send_result = "ok")
              /\ pc = "exited" => cause = "send"

\* a tick of all four providers whose temperature read failed has been delivered
C16_Witness ==
    /\ gpu_temp = "err"
    /\ Len(infos) = 4
    /\ tick_trace = TickOrder
    /\ pc = "check"
    /\ \E d \in sent : d.text = info

(***************************************************************************)
(* C17.  The flag starts as "keep running"; once it is cleared no step     *)
(* sets it again; and every step that changes it happens with the handler  *)
(* installed and changes nothing of the main thread's state (position,     *)
(* arguments, socket, buffer, registry, get_info's locals, sampler), so    *)
(* no step of the poll loop writes it.                                     *)
(***************************************************************************)
C17_FlagMonotonicSingleWriter ==
    /\ running = TRUE
    /\ [][/\ (~running) => (~running')
          /\ (running' # running) =>
                /\ handler
                /\ UNCHANGED <<pc, handler, args, socket, buf, infos, i, info_str, info,
                               exit_code, sys, sub>>]_vars

\* the flag was cleared during a build and is still cleared two steps later
C17_Witness ==
    /\ ~running
    /\ cancel_pc = "build"
    /\ pc = "send"

(***************************************************************************)
(* C18.  At most one RefMut of the sampler is live at a time and never     *)
(* together with a Ref; the RefCell never refuses a borrow; no guard       *)
(* outlives the provider call that took it; and only steps of the main     *)
(* thread inside get_info change the borrow state, never the handler's     *)
(* store.                                                                  *)
(***************************************************************************)
C18_SamplerExclusive ==
    /\ [](/\ sys.writers <= 1
          /\ sys.writers = 1 => sys.readers = 0
          /\ cause # "borrow"
          /\ (pc # "build" \/ sub = 0) => sys = NoBorrow)
    /\ [][(sys' # sys) => (pc = "build" /\ UNCHANGED <<running, cancel_pc>>)]_vars

\* the handler cleared the flag while RamInfo held its RefMut, after CpuInfo had returned
C18_Witness ==
    /\ pc = "build"
    /\ sys.writers = 1
    /\ i <= Len(infos)
    /\ infos[i].kind = "Ram"
    /\ Len(outs) >= 1
    /\ ~running

(***************************************************************************)
(* C19.  The encode buffer is empty whenever the loop is not between       *)
(* encode_into and send_to, in particular at the start of every encode     *)
(* (the first one, one after a successful send, and after a skipped        *)
(* tick); what send_to gets is exactly one encoded message, that of the    *)
(* current tick's text.                                                    *)
(***************************************************************************)
C19_BufferEmptyAtEncode ==
    /\ pc \in {"registry", "check", "sleep", "build", "encode", "exit_scope"} => buf = <<>>
    /\ pc = "send" => (Len(buf) = Len(OscEncode(info)) /\ buf = OscEncode(info))
    /\ \A d \in sent : Len(d.bytes) = Len(OscEncode(d.text))

\* the encode of a tick that follows a successfully sent tick starts from an empty buffer
C19_Witness ==
    /\ pc = "encode"
    /\ last_tick = "sent"
    /\ sent # {}
    /\ buf = <<>>

====
